---- MODULE Spec2Model ----
(***************************************************************************)
(* Verification model of the kraken bridge:                                *)
(*   - JSAllCollection (bridge/bindings/jsc/DOM/all_collection.cc), the    *)
(*     ordered node collection with item / add / remove / length;          *)
(*   - JSCDebuggerImpl (devtools/impl/jsc_debugger_impl.cc), the           *)
(*     cooperative pause / resume bridge of the debugger.                  *)
(* Two state machines share the module: Spec (the collection) and          *)
(* DebuggerSpec / DebuggerFairSpec (the debugger bridge).                  *)
(***************************************************************************)
EXTENDS Integers, Sequences, FiniteSets, TLC

\* ------------------------------------------------------------------ bounds
\* Longest m_nodes the model lets add() build.
MaxLen == 4
\* Width of size_t in the model (64 in the builds; TLC integers are 32 bit).
SizeTBits == 16
\* Largest number of functions the engine instruments in one debug session.
MaxFunctions == 2
\* Most release requests of one kind (native teardown, collector) for the
\* window.
MaxReleaseCalls == 2
\* Most listeners added to the event target.
MaxListeners == 3

\* ------------------------------------------------------- JS values, nodes
\* JSNode::NodeInstance objects that exist on the native side.
NodeInstances == {"A", "B", "C", "D"}

\* A null NodeInstance pointer.
nullptr == "nullptr"

\* A null JSValueRef / JSObjectRef (script sees undefined when a native
\* function returns it).
nullRef == [type |-> "nullptr"]

\* The JS null value: a JSValueRef that is not an object.
JSNull == [type |-> "null"]

\* JSValueMakeNumber
JSValueMakeNumber(n) == [type |-> "number", num |-> n]

\* node->object: the script object that wraps a NodeInstance.
ObjectOf(inst) == [type |-> "object", priv |-> inst]

JSValueIsObject(v) == v.type = "object"

\* JSValueToObject on a value that is an object yields that object.
JSValueToObject(v) == v

\* JSObjectGetPrivate: the native pointer stored in the script object.
JSObjectGetPrivate(o) == o.priv

\* JSValueToNumber (ECMAScript ToNumber; null converts to 0).
JSValueToNumber(v) == IF v.type = "number" THEN v.num ELSE 0

SizeTModulus == 2 ^ SizeTBits

\* size_t index = <double>: the implicit floating-integral conversion.  A
\* value that size_t can represent converts to itself.  For a negative value
\* the conversion is undefined; the builds produce either the two's
\* complement wrap (x86-64 cvttsd2si) or 0 (AArch64 fcvtzu saturates).
DoubleToSizeT(d) ==
  IF d >= 0 THEN {d % SizeTModulus} ELSE {d % SizeTModulus, 0}

\* ------------------------------------------------------- std::vector ops
\* Mutant of RemoveAt: pop_back() instead of erase(begin() + index).
RemoveAt_PopBack(v, pos) == SubSeq(v, 1, Len(v) - 1)

RemoveAt(v, pos) == [i \in 1..(Len(v) - 1) |-> IF i <= pos THEN v[i] ELSE v[i + 1]]

InsertAt(v, pos, x) ==
  [i \in 1..(Len(v) + 1) |-> IF i <= pos THEN v[i] ELSE IF i = pos + 1 THEN x ELSE v[i - 1]]

\* std::find(begin, end, x) as a 0-based position; Len(v) is end().
Find(v, x) ==
  IF \E i \in 1..Len(v) : v[i] = x
  THEN (CHOOSE i \in 1..Len(v) : v[i] = x /\ \A j \in 1..(i - 1) : v[j] # x) - 1
  ELSE Len(v)

\* vector::erase(begin() + pos).  Erasing a position that is not an element
\* is undefined: the builds abort (heap corruption, segmentation fault) or
\* shrink the vector by one element from either end.
VectorErase(v, pos) ==
  IF pos < Len(v)
  THEN {[nodes |-> RemoveAt(v, pos), crashed |-> FALSE]}
  ELSE {[nodes |-> v, crashed |-> TRUE]}
       \cup (IF Len(v) > 0
             THEN {[nodes |-> Tail(v), crashed |-> FALSE],
                   [nodes |-> SubSeq(v, 1, Len(v) - 1), crashed |-> FALSE]}
             ELSE {})

\* ------------------------------------------------------------ variables
VARIABLES
  m_nodes,      \* JSAllCollection::m_nodes
  call,         \* the last native function call made by script
  old_nodes,    \* m_nodes when that call started
  ret,          \* the JSValueRef the call returned
  exception,    \* *exception after the call ("none" when not set)
  crashed,      \* the process died in the call
  answeredBy,   \* who answered the last getProperty: "static" or "fallback"
  released      \* the JSAllCollection has been released (destroyed)

collVars == <<m_nodes, call, old_nodes, ret, exception, crashed, answeredBy, released>>

\* The debugger bridge (JSCDebuggerImpl and the two threads around it).
VARIABLES
  attached,     \* the engine has this debugger attached to m_globalObject
  execPc,       \* where the execution thread is
  lockOwner,    \* holder of the VM's JSLock: "none", "exec" or "driver"
  m_doneProcessingDebuggerEvents,
  instrumented, \* functions compiled with debug instrumentation
  drvPc,        \* where the driver thread is inside detachDebugger
  isBeingDestroyed, \* argument of the latest detachDebugger call
  recompiled,   \* recompileAllJSFunctions ran in the latest detachDebugger
  stripped,     \* the functions that recompilation de-instrumented
  lastAttach,   \* the latest attachDebugger call and what became of it
  resumedSincePause, \* resume() has been called since the latest pause
  resumedWhileRunning \* the latest resume() found the bridge Running

dbgHist == <<lastAttach, resumedSincePause, resumedWhileRunning>>

dbgVars == <<attached, execPc, lockOwner, m_doneProcessingDebuggerEvents,
             instrumented, drvPc, isBeingDestroyed, recompiled, stripped, dbgHist>>

\* Host objects and their context (JSWindow, the host objects of
\* host_object_test.cc).
VARIABLES
  window,       \* JSWindow: released, _onloadCallback, location_, registered
  releases,     \* the release requests made so far and the releases that ran
  contextAlive, \* the bridge / context exists
  objState,     \* per host object: "none", "materialized", "global", "freed"
  isSampleFree, \* the static flag the destructors of the test objects set
  globalsAtTeardown \* the objects a global property referenced at delete bridge

hostVars == <<window, releases, contextAlive, objState, isSampleFree, globalsAtTeardown>>

\* The EventTarget of one element, for one event type.
VARIABLES
  listeners,    \* callbacks added with addEventListener, in insertion order
  handler,      \* the handler property slot (onclick)
  lastAssigned, \* the value script assigned to the handler property last
  handlerSetAt, \* how many listeners there were at that assignment
  invoked,      \* the callbacks the latest dispatch invoked, in order
  readBack,     \* the value the latest read of the handler property gave
  evtOp         \* the latest operation on the target

evtVars == <<listeners, handler, lastAssigned, handlerSetAt, invoked, readBack, evtOp>>

vars == <<collVars, dbgVars, hostVars, evtVars>>

\* What the calls on the collection leave alone.
otherVars == <<dbgVars, hostVars, evtVars>>

\* What the debugger bridge leaves alone.
nonDbgVars == <<collVars, hostVars, evtVars>>

NoCall == [fn |-> "none", argumentCount |-> 0, arguments |-> <<>>]

\* ------------------------------------------------------ JSAllCollection
\* getProperty("length")
getLength(nodes) == JSValueMakeNumber(Len(nodes))

\* The values item() can return for an argument list (a set: the index
\* conversion has more than one outcome for a negative number).
itemResults(nodes, argumentCount, arguments) ==
  IF argumentCount < 1
  THEN {nullRef}
  ELSE {IF index >= Len(nodes) THEN nullRef ELSE ObjectOf(nodes[index + 1]) :
          index \in DoubleToSizeT(JSValueToNumber(arguments[1]))}

\* Mutant of internalAdd: a null before inserts at begin() instead of
\* emplace_back.
internalAdd_Prepend(nodes, node, before) ==
  IF before # nullptr
  THEN LET it == Find(nodes, before)
       IN  IF it < Len(nodes)
           THEN {[nodes |-> InsertAt(e.nodes, it, node), crashed |-> FALSE] :
                   e \in VectorErase(nodes, it)}
           ELSE {[nodes |-> nodes, crashed |-> FALSE], [nodes |-> nodes, crashed |-> TRUE]}
  ELSE {[nodes |-> <<node>> \o nodes, crashed |-> FALSE]}

\* The outcomes of internalAdd(node, before): the new m_nodes and whether
\* the process survived.
internalAdd(nodes, node, before) ==
  IF before # nullptr
  THEN LET it == Find(nodes, before)
       IN  IF it < Len(nodes)
           THEN {[nodes |-> InsertAt(e.nodes, it, node), crashed |-> FALSE] :
                   e \in VectorErase(nodes, it)}
           ELSE \* erase(end()) then insert at the stale iterator
                {[nodes |-> nodes, crashed |-> FALSE], [nodes |-> nodes, crashed |-> TRUE]}
  ELSE {[nodes |-> Append(nodes, node), crashed |-> FALSE]}

\* The beforeInstance add() hands to internalAdd.
addBeforeInstance(argumentCount, arguments) ==
  LET nodeRef == JSValueToObject(arguments[1])
      beforeRef == IF argumentCount = 2 /\ JSValueIsObject(arguments[2])
                   THEN JSValueToObject(arguments[2]) ELSE nullRef
  IN  IF beforeRef # nullRef THEN JSObjectGetPrivate(nodeRef) ELSE nullptr

Called(fn, argumentCount, arguments) ==
  /\ call' = [fn |-> fn, argumentCount |-> argumentCount, arguments |-> arguments]
  /\ old_nodes' = m_nodes
  /\ answeredBy' = "none"
  /\ UNCHANGED released

\* collection->m_nodes, reached through the private pointer of the function
\* object.  Nothing tests that the collection still exists: once it is
\* released the pointer dangles, and the access either sees the old contents
\* or kills the process.
Dangling(outcomes, nodes) ==
  IF released THEN outcomes \cup {[nodes |-> nodes, crashed |-> TRUE]} ELSE outcomes

item(argumentCount, arguments) ==
  /\ ~crashed
  /\ Called("item", argumentCount, arguments)
  /\ exception' = "none"
  /\ UNCHANGED m_nodes
  /\ UNCHANGED otherVars
  /\ IF argumentCount < 1
     THEN /\ ret' = nullRef
          /\ UNCHANGED crashed
     ELSE \E o \in Dangling({[nodes |-> m_nodes, crashed |-> FALSE]}, m_nodes) :
            /\ crashed' = o.crashed
            /\ ret' \in (IF o.crashed THEN {nullRef}
                         ELSE itemResults(m_nodes, argumentCount, arguments))

add(argumentCount, arguments) ==
  /\ ~crashed
  /\ Called("add", argumentCount, arguments)
  /\ ret' = nullRef
  /\ UNCHANGED otherVars
  /\ IF argumentCount < 1
     THEN /\ exception' = "Failed to execute add() on HTMLAllCollection: 1 arguments required."
          /\ UNCHANGED <<m_nodes, crashed>>
     ELSE IF ~JSValueIsObject(arguments[1])
     THEN /\ exception' = "Failed to execute add() on HTMLAllCollection: first arguments should be a object."
          /\ UNCHANGED <<m_nodes, crashed>>
     ELSE /\ exception' = "none"
          /\ \E o \in Dangling(internalAdd(m_nodes, JSObjectGetPrivate(JSValueToObject(arguments[1])),
                                           addBeforeInstance(argumentCount, arguments)), m_nodes) :
               /\ m_nodes' = o.nodes
               /\ crashed' = o.crashed

remove(argumentCount, arguments) ==
  /\ ~crashed
  /\ Called("remove", argumentCount, arguments)
  /\ ret' = nullRef
  /\ UNCHANGED otherVars
  /\ IF argumentCount < 1
     THEN /\ exception' = "Failed to execute remove() on HTMLAllCollection: 1 arguments required."
          /\ UNCHANGED <<m_nodes, crashed>>
     ELSE /\ exception' = "none"
          /\ \E index \in DoubleToSizeT(JSValueToNumber(arguments[1])) :
               \E o \in Dangling(VectorErase(m_nodes, index), m_nodes) :
                 /\ m_nodes' = o.nodes
                 /\ crashed' = o.crashed

\* getAllCollectionPropertyMap(): the names of the static table.
AllCollectionPropertyMap == {"item", "add", "remove", "length"}

\* m_item.function(), m_add.function(), m_remove.function()
FunctionObject(name) == [type |-> "function", name |-> name]

\* HostObject::getProperty, the fallback of the base class: a name it does
\* not know is absent.
HostObject_getProperty(name) == nullRef

\* Mutant of getProperty: the switch has no case for kLength, which falls
\* through to the fallback.
getProperty_NoLengthCase(nodes, name) ==
  IF name \in AllCollectionPropertyMap \ {"length"}
  THEN [by |-> "static", value |-> FunctionObject(name)]
  ELSE [by |-> "fallback", value |-> HostObject_getProperty(name)]

\* JSAllCollection::getProperty: who answers the name, and the value.
getProperty(nodes, name) ==
  IF name \in AllCollectionPropertyMap
  THEN [by |-> "static",
        value |-> IF name = "length" THEN getLength(nodes) ELSE FunctionObject(name)]
  ELSE [by |-> "fallback", value |-> HostObject_getProperty(name)]

\* Script reads a property of the collection object.
GetProperty(name) ==
  /\ ~crashed
  /\ ~released
  /\ call' = [fn |-> "getProperty", argumentCount |-> 1, arguments |-> <<name>>]
  /\ old_nodes' = m_nodes
  /\ ret' = getProperty(m_nodes, name).value
  /\ answeredBy' = getProperty(m_nodes, name).by
  /\ exception' = "none"
  /\ UNCHANGED <<m_nodes, crashed, released>>
  /\ UNCHANGED otherVars

\* The collection is released (native teardown or the engine's collector);
\* function objects that script obtained earlier stay callable.
releaseCollection ==
  /\ ~crashed
  /\ ~released
  /\ released' = TRUE
  /\ call' = [fn |-> "release", argumentCount |-> 0, arguments |-> <<>>]
  /\ old_nodes' = m_nodes
  /\ ret' = nullRef
  /\ answeredBy' = "none"
  /\ exception' = "none"
  /\ UNCHANGED <<m_nodes, crashed>>
  /\ UNCHANGED otherVars

\* ---------------------------------------------------- inputs of the calls
NodeObjects == {ObjectOf(n) : n \in NodeInstances}
IndexNumbers == {JSValueMakeNumber(n) : n \in (-2)..(MaxLen + 1)}

IndexArguments ==
  {<<>>} \cup {<<i>> : i \in IndexNumbers} \cup {<<i, JSNull>> : i \in IndexNumbers}

AddArguments ==
  {<<>>}
  \cup {<<n>> : n \in NodeObjects \cup {JSNull}}
  \cup {<<n, b>> : n \in NodeObjects \cup {JSNull}, b \in NodeObjects \cup {JSNull}}
  \cup {<<n, b, JSNull>> : n \in NodeObjects, b \in NodeObjects}

CallItem == \E a \in IndexArguments : item(Len(a), a)
CallAdd == \E a \in AddArguments : Len(m_nodes) < MaxLen /\ add(Len(a), a)
CallRemove == \E a \in IndexArguments : remove(Len(a), a)

PropertyNames == AllCollectionPropertyMap \cup {"abc", "onclick"}
CallGetProperty == \E name \in PropertyNames : GetProperty(name)

\* ------------------------------------------------------ JSCDebuggerImpl
\* Two threads: the execution thread that runs script (and, at a pause,
\* runEventLoopWhilePaused), and the thread of the debugger driver that
\* calls attachDebugger, detachDebugger and resumes the program.
Functions == 1..MaxFunctions

\* No attachDebugger call has been made.
NoAttach == [called |-> FALSE, wasAttached |-> FALSE, rejected |-> FALSE]

execVars == <<execPc, lockOwner, m_doneProcessingDebuggerEvents>>
drvVars == <<drvPc, isBeingDestroyed, recompiled, stripped>>

\* The execution thread is inside the pause loop of runEventLoopWhilePaused.
InPauseLoop == execPc \in {"poll", "sleep"}

\* The execution thread has been stopped by a pause and has not left the
\* loop.
Blocked == execPc \in {"enter", "poll", "sleep"}

\* The state of the bridge, in the terms of the state machine
\* Detached -> Attached(Running) -> Attached(Paused) -> Detaching -> Detached.
BridgeState ==
  IF drvPc # "idle" THEN "Detaching"
  ELSE IF ~attached THEN "Detached"
  ELSE IF Blocked THEN "Paused"
  ELSE "Running"

\* --- the engine, on the execution thread
\* The execution thread enters the VM to run script: it takes the JSLock.
EnterScript ==
  /\ execPc = "idle"
  /\ lockOwner = "none"
  /\ lockOwner' = "exec"
  /\ execPc' = "script"
  /\ UNCHANGED <<attached, m_doneProcessingDebuggerEvents, instrumented, drvVars>>
  /\ UNCHANGED dbgHist
  /\ UNCHANGED nonDbgVars

\* The script returns: the execution thread leaves the VM.
LeaveScript ==
  /\ execPc = "script"
  /\ lockOwner' = "none"
  /\ execPc' = "idle"
  /\ UNCHANGED <<attached, m_doneProcessingDebuggerEvents, instrumented, drvVars>>
  /\ UNCHANGED dbgHist
  /\ UNCHANGED nonDbgVars

\* With a debugger attached the engine compiles functions with debug
\* instrumentation.
CompileInstrumented ==
  /\ execPc = "script"
  /\ attached
  /\ \E f \in Functions \ instrumented : instrumented' = instrumented \cup {f}
  /\ UNCHANGED <<attached, execVars, drvVars>>
  /\ UNCHANGED dbgHist
  /\ UNCHANGED nonDbgVars

\* Mutant of EnginePause: the flag keeps the value an earlier resume() gave
\* it.
EnginePause_StaleFlag ==
  /\ execPc = "script"
  /\ attached
  /\ execPc' = "enter"
  /\ resumedSincePause' = FALSE
  /\ UNCHANGED <<attached, lockOwner, m_doneProcessingDebuggerEvents, instrumented, drvVars>>
  /\ UNCHANGED <<lastAttach, resumedWhileRunning>>
  /\ UNCHANGED nonDbgVars

\* A breakpoint or step: the engine clears the flag and calls
\* runEventLoopWhilePaused on the execution thread.
EnginePause ==
  /\ execPc = "script"
  /\ attached
  /\ m_doneProcessingDebuggerEvents' = FALSE
  /\ execPc' = "enter"
  /\ UNCHANGED <<attached, lockOwner, instrumented, drvVars>>
  /\ resumedSincePause' = FALSE
  /\ UNCHANGED <<lastAttach, resumedWhileRunning>>
  /\ UNCHANGED nonDbgVars

\* --- runEventLoopWhilePaused
\* Mutant of DropAllLocks: the pause loop is entered with the lock held.
DropAllLocks_KeepsLock ==
  /\ execPc = "enter"
  /\ execPc' = "poll"
  /\ UNCHANGED <<attached, lockOwner, m_doneProcessingDebuggerEvents, instrumented, drvVars>>
  /\ UNCHANGED dbgHist
  /\ UNCHANGED nonDbgVars

\* JSC::JSLock::DropAllLocks dropAllLocks(vm): the constructor.
DropAllLocks ==
  /\ execPc = "enter"
  /\ lockOwner' = (IF lockOwner = "exec" THEN "none" ELSE lockOwner)
  /\ execPc' = "poll"
  /\ UNCHANGED <<attached, m_doneProcessingDebuggerEvents, instrumented, drvVars>>
  /\ UNCHANGED dbgHist
  /\ UNCHANGED nonDbgVars

\* Mutant of LoopTest: the loop condition is inverted.
LoopTest_Inverted ==
  /\ execPc = "poll"
  /\ execPc' = (IF m_doneProcessingDebuggerEvents THEN "sleep" ELSE "relock")
  /\ UNCHANGED <<attached, lockOwner, m_doneProcessingDebuggerEvents, instrumented, drvVars>>
  /\ UNCHANGED dbgHist
  /\ UNCHANGED nonDbgVars

\* Mutant of LoopTest: the function returns without waiting for the flag.
LoopTest_NoWait ==
  /\ execPc = "poll"
  /\ execPc' = "relock"
  /\ UNCHANGED <<attached, lockOwner, m_doneProcessingDebuggerEvents, instrumented, drvVars>>
  /\ UNCHANGED dbgHist
  /\ UNCHANGED nonDbgVars

\* while (!m_doneProcessingDebuggerEvents): the flag is a member of the
\* engine's base class (its declaration is not in these sources); it is
\* re-read from memory on every iteration, sleep_for being an opaque call.
LoopTest ==
  /\ execPc = "poll"
  /\ execPc' = (IF ~m_doneProcessingDebuggerEvents THEN "sleep" ELSE "relock")
  /\ UNCHANGED <<attached, lockOwner, m_doneProcessingDebuggerEvents, instrumented, drvVars>>
  /\ UNCHANGED dbgHist
  /\ UNCHANGED nonDbgVars

\* std::this_thread::sleep_for(50ms) returns.
Sleep ==
  /\ execPc = "sleep"
  /\ execPc' = "poll"
  /\ UNCHANGED <<attached, lockOwner, m_doneProcessingDebuggerEvents, instrumented, drvVars>>
  /\ UNCHANGED dbgHist
  /\ UNCHANGED nonDbgVars

\* ~DropAllLocks at the end of the scope: blocks until the JSLock is free,
\* takes it, and the engine goes on with the script.
RestoreLocks ==
  /\ execPc = "relock"
  /\ lockOwner = "none"
  /\ lockOwner' = "exec"
  /\ execPc' = "script"
  /\ UNCHANGED <<attached, m_doneProcessingDebuggerEvents, instrumented, drvVars>>
  /\ UNCHANGED dbgHist
  /\ UNCHANGED nonDbgVars

\* --- the driver thread
\* The driver lets the program continue: the flag is set.
resume ==
  /\ drvPc = "idle"
  /\ m_doneProcessingDebuggerEvents' = TRUE
  /\ UNCHANGED <<attached, execPc, lockOwner, instrumented, drvVars>>
  /\ resumedSincePause' = TRUE
  /\ resumedWhileRunning' = (BridgeState = "Running")
  /\ UNCHANGED lastAttach
  /\ UNCHANGED nonDbgVars

attachDebugger ==
  /\ drvPc = "idle"
  /\ attached' = TRUE
  /\ UNCHANGED <<execVars, instrumented, drvVars>>
  /\ lastAttach' = [called |-> TRUE, wasAttached |-> attached, rejected |-> FALSE]
  /\ UNCHANGED <<resumedSincePause, resumedWhileRunning>>
  /\ UNCHANGED nonDbgVars

\* detachDebugger(isBeingDestroyed) up to and including detach(...).
detachDebugger(destroyed) ==
  /\ drvPc = "idle"
  /\ isBeingDestroyed' = destroyed
  /\ recompiled' = FALSE
  /\ stripped' = {}
  /\ attached' = FALSE
  /\ drvPc' = "detached"
  /\ UNCHANGED <<execVars, instrumented>>
  /\ UNCHANGED dbgHist
  /\ UNCHANGED nonDbgVars

\* Mutant of detachDebuggerTest: detachDebugger returns after detach().
detachDebuggerTest_NoRecompile ==
  /\ drvPc = "detached"
  /\ drvPc' = "idle"
  /\ UNCHANGED <<attached, execVars, instrumented, isBeingDestroyed, recompiled, stripped>>
  /\ UNCHANGED dbgHist
  /\ UNCHANGED nonDbgVars

\* if (!isBeingDestroyed) recompileAllJSFunctions(); else return.
detachDebuggerTest ==
  /\ drvPc = "detached"
  /\ drvPc' = (IF ~isBeingDestroyed THEN "lock" ELSE "idle")
  /\ UNCHANGED <<attached, execVars, instrumented, isBeingDestroyed, recompiled, stripped>>
  /\ UNCHANGED dbgHist
  /\ UNCHANGED nonDbgVars

\* recompileAllJSFunctions: JSC::JSLockHolder holder(vm()) blocks until the
\* JSLock is free.
recompileLock ==
  /\ drvPc = "lock"
  /\ lockOwner = "none"
  /\ lockOwner' = "driver"
  /\ drvPc' = "recompile"
  /\ UNCHANGED <<attached, execPc, m_doneProcessingDebuggerEvents, instrumented,
                 isBeingDestroyed, recompiled, stripped>>
  /\ UNCHANGED dbgHist
  /\ UNCHANGED nonDbgVars

\* JSC::Debugger::recompileAllJSFunctions(), then the holder releases the
\* lock and detachDebugger returns.
recompileAllJSFunctions ==
  /\ drvPc = "recompile"
  /\ stripped' = instrumented
  /\ instrumented' = {}
  /\ recompiled' = TRUE
  /\ lockOwner' = "none"
  /\ drvPc' = "idle"
  /\ UNCHANGED <<attached, execPc, m_doneProcessingDebuggerEvents, isBeingDestroyed>>
  /\ UNCHANGED dbgHist
  /\ UNCHANGED nonDbgVars

\* ------------------------------------------------- JSWindow, host objects
nonHostVars == <<collVars, dbgVars, evtVars>>

\* The callables script can assign to window.onload.
OnloadCallbacks == {"onload1", "onload2"}

\* JSWindow(): location_ is made, _onloadCallback is empty; the object is
\* not bound to a context yet.
JSWindowConstructed ==
  [released |-> FALSE, onloadCallback |-> nullptr, location |-> TRUE, registered |-> FALSE]

\* ~JSWindow(): _onloadCallback = nullptr; location_ = nullptr.
JSWindowDestructor(w) == [w EXCEPT !.onloadCallback = nullptr, !.location = FALSE]

\* bind(context): the window becomes reachable from script.
bind ==
  /\ ~window.released
  /\ ~window.registered
  /\ window' = [window EXCEPT !.registered = TRUE]
  /\ UNCHANGED <<releases, contextAlive, objState, isSampleFree, globalsAtTeardown>>
  /\ UNCHANGED nonHostVars

\* set(context, "onload", value) on a live window stores the callback; on a
\* released one it is rejected.
setOnload(cb) ==
  /\ window.registered \/ window.released
  /\ window' = IF window.released THEN window ELSE [window EXCEPT !.onloadCallback = cb]
  /\ window.released \/ window.onloadCallback # cb
  /\ UNCHANGED <<releases, contextAlive, objState, isSampleFree, globalsAtTeardown>>
  /\ UNCHANGED nonHostVars

\* Mutant of release: no test of the released flag.
release_Unguarded(w) ==
  [window |-> [JSWindowDestructor(w) EXCEPT !.released = TRUE, !.registered = FALSE],
   ran |-> TRUE]

\* release(): the first call clears the stored callback, drops the owned
\* location object and unregisters; a later call does nothing.
release(w) ==
  IF w.released
  THEN [window |-> w, ran |-> FALSE]
  ELSE [window |-> [JSWindowDestructor(w) EXCEPT !.released = TRUE, !.registered = FALSE],
        ran |-> TRUE]

\* unbind(context): native teardown asks for the release.
unbind ==
  /\ releases.native < MaxReleaseCalls
  /\ window' = release(window).window
  /\ releases' = [releases EXCEPT !.native = @ + 1,
                                  !.ran = @ + (IF release(window).ran THEN 1 ELSE 0)]
  /\ UNCHANGED <<contextAlive, objState, isSampleFree, globalsAtTeardown>>
  /\ UNCHANGED nonHostVars

\* The engine's collector signals that the window is unreachable.
collectorFinalize ==
  /\ releases.collector < MaxReleaseCalls
  /\ window' = release(window).window
  /\ releases' = [releases EXCEPT !.collector = @ + 1,
                                  !.ran = @ + (IF release(window).ran THEN 1 ELSE 0)]
  /\ UNCHANGED <<contextAlive, objState, isSampleFree, globalsAtTeardown>>
  /\ UNCHANGED nonHostVars

\* The host objects of the tests.
HostObjects == {"SampleObject", "SampleExoticHostObject"}

\* new SampleObject(context.get())
NewHostObject(o) ==
  /\ contextAlive
  /\ objState[o] = "none"
  /\ objState' = [objState EXCEPT ![o] = "materialized"]
  /\ UNCHANGED <<window, releases, contextAlive, isSampleFree, globalsAtTeardown>>
  /\ UNCHANGED nonHostVars

\* context->defineGlobalProperty("o", object): script references the object.
defineGlobalProperty(o) ==
  /\ contextAlive
  /\ objState[o] = "materialized"
  /\ objState' = [objState EXCEPT ![o] = "global"]
  /\ UNCHANGED <<window, releases, contextAlive, isSampleFree, globalsAtTeardown>>
  /\ UNCHANGED nonHostVars

\* The collector frees a host object nothing references; its destructor
\* sets isSampleFree.
collectHostObject(o) ==
  /\ contextAlive
  /\ objState[o] = "materialized"
  /\ objState' = [objState EXCEPT ![o] = "freed"]
  /\ isSampleFree' = TRUE
  /\ UNCHANGED <<window, releases, contextAlive, globalsAtTeardown>>
  /\ UNCHANGED nonHostVars

\* Mutant of deleteBridge: objects a global property still references are
\* not finalized.
deleteBridge_LeaksGlobals ==
  /\ contextAlive
  /\ contextAlive' = FALSE
  /\ objState' = [o \in HostObjects |->
                    IF objState[o] = "materialized" THEN "freed" ELSE objState[o]]
  /\ globalsAtTeardown' = {o \in HostObjects : objState[o] = "global"}
  /\ isSampleFree' = (isSampleFree \/ \E o \in HostObjects : objState[o] = "materialized")
  /\ UNCHANGED <<window, releases>>
  /\ UNCHANGED nonHostVars

\* delete bridge: the context is torn down and every host object
\* materialized in it is finalized.
deleteBridge ==
  /\ contextAlive
  /\ contextAlive' = FALSE
  /\ objState' = [o \in HostObjects |->
                    IF objState[o] \in {"materialized", "global"} THEN "freed" ELSE objState[o]]
  /\ globalsAtTeardown' = {o \in HostObjects : objState[o] = "global"}
  /\ isSampleFree' = (isSampleFree \/ \E o \in HostObjects : objState[o] \in {"materialized", "global"})
  /\ UNCHANGED <<window, releases>>
  /\ UNCHANGED nonHostVars

\* new kraken::JSBridge(...): the next test starts with a fresh context.
newBridge ==
  /\ ~contextAlive
  /\ contextAlive' = TRUE
  /\ objState' = [o \in HostObjects |-> "none"]
  /\ globalsAtTeardown' = {}
  /\ UNCHANGED <<window, releases, isSampleFree>>
  /\ UNCHANGED nonHostVars

\* ------------------------------------------------------------ EventTarget
nonEvtVars == <<collVars, dbgVars, hostVars>>

\* Script functions used as listeners and handlers.
Callbacks == {"f", "g", "h"}

\* Values that are not callable.
NonCallables == {"null"}

\* No handler stored / nothing read yet.
NoCallback == "none"

IsCallable(v) == v \in Callbacks

\* div.addEventListener('click', cb)
addEventListener(cb) ==
  /\ Len(listeners) < MaxListeners
  /\ listeners' = Append(listeners, cb)
  /\ evtOp' = "addEventListener"
  /\ UNCHANGED <<handler, lastAssigned, handlerSetAt, invoked, readBack>>
  /\ UNCHANGED nonEvtVars

\* Mutant of setHandlerProperty: a non-callable value leaves the slot as it
\* was.
setHandlerProperty_KeepsOld(v) ==
  /\ handler' = (IF IsCallable(v) THEN v ELSE handler)
  /\ lastAssigned' = v
  /\ handlerSetAt' = Len(listeners)
  /\ evtOp' = "setHandlerProperty"
  /\ UNCHANGED <<listeners, invoked, readBack>>
  /\ UNCHANGED nonEvtVars

\* div.onclick = v
setHandlerProperty(v) ==
  /\ handler' = (IF IsCallable(v) THEN v ELSE NoCallback)
  /\ lastAssigned' = v
  /\ handlerSetAt' = Len(listeners)
  /\ evtOp' = "setHandlerProperty"
  /\ UNCHANGED <<listeners, invoked, readBack>>
  /\ UNCHANGED nonEvtVars

\* let f = div.onclick
getHandlerProperty ==
  /\ readBack' = handler
  /\ evtOp' = "getHandlerProperty"
  /\ UNCHANGED <<listeners, handler, lastAssigned, handlerSetAt, invoked>>
  /\ UNCHANGED nonEvtVars

\* document.body.appendChild(div)
appendChild ==
  /\ evtOp # "appendChild"
  /\ evtOp' = "appendChild"
  /\ UNCHANGED <<listeners, handler, lastAssigned, handlerSetAt, invoked, readBack>>
  /\ UNCHANGED nonEvtVars

\* Mutant of dispatchEvent: the listeners run before the handler property.
dispatchEvent_ListenersFirst ==
  /\ invoked' = listeners \o (IF handler # NoCallback THEN <<handler>> ELSE <<>>)
  /\ evtOp' = "dispatchEvent"
  /\ UNCHANGED <<listeners, handler, lastAssigned, handlerSetAt, readBack>>
  /\ UNCHANGED nonEvtVars

\* dispatch('click', evt): the handler property first, then the listeners in
\* insertion order.
dispatchEvent ==
  /\ invoked' = (IF handler # NoCallback THEN <<handler>> ELSE <<>>) \o listeners
  /\ evtOp' = "dispatchEvent"
  /\ UNCHANGED <<listeners, handler, lastAssigned, handlerSetAt, readBack>>
  /\ UNCHANGED nonEvtVars

\* ------------------------------------------------------- specifications
CollInit ==
  /\ m_nodes = <<>>
  /\ call = NoCall
  /\ old_nodes = <<>>
  /\ ret = nullRef
  /\ exception = "none"
  /\ crashed = FALSE
  /\ answeredBy = "none"
  /\ released = FALSE

DbgInit ==
  /\ attached = FALSE
  /\ execPc = "idle"
  /\ lockOwner = "none"
  /\ m_doneProcessingDebuggerEvents = FALSE
  /\ instrumented = {}
  /\ drvPc = "idle"
  /\ isBeingDestroyed = FALSE
  /\ recompiled = FALSE
  /\ stripped = {}
  /\ lastAttach = NoAttach
  /\ resumedSincePause = FALSE
  /\ resumedWhileRunning = FALSE

HostInit ==
  /\ window = JSWindowConstructed
  /\ releases = [native |-> 0, collector |-> 0, ran |-> 0]
  /\ contextAlive = TRUE
  /\ objState = [o \in HostObjects |-> "none"]
  /\ isSampleFree = FALSE
  /\ globalsAtTeardown = {}

EvtInit ==
  /\ listeners = <<>>
  /\ handler = NoCallback
  /\ lastAssigned = NoCallback
  /\ handlerSetAt = 0
  /\ invoked = <<>>
  /\ readBack = NoCallback
  /\ evtOp = "none"

Init == CollInit /\ DbgInit /\ HostInit /\ EvtInit

\* The collection, driven by script calls.
Next ==
  \/ CallItem
  \/ CallAdd
  \/ CallRemove
  \/ CallGetProperty

Spec == Init /\ [][Next]_vars

\* The collection with its release: function objects outlive it.
ReleaseNext ==
  \/ CallItem
  \/ CallAdd
  \/ CallRemove
  \/ CallGetProperty
  \/ releaseCollection

ReleaseSpec == Init /\ [][ReleaseNext]_vars

\* The window and the host objects of a context.
HostNext ==
  \/ bind
  \/ \E cb \in OnloadCallbacks : setOnload(cb)
  \/ unbind
  \/ collectorFinalize
  \/ \E o \in HostObjects : NewHostObject(o)
  \/ \E o \in HostObjects : defineGlobalProperty(o)
  \/ \E o \in HostObjects : collectHostObject(o)
  \/ deleteBridge
  \/ newBridge

HostSpec == Init /\ [][HostNext]_vars

\* The event target of one element.
EventNext ==
  \/ \E cb \in Callbacks : addEventListener(cb)
  \/ \E v \in Callbacks \cup NonCallables : setHandlerProperty(v)
  \/ getHandlerProperty
  \/ appendChild
  \/ dispatchEvent

EventSpec == Init /\ [][EventNext]_vars

\* The debugger bridge: the execution thread and the driver thread.
DebuggerNext ==
  \/ EnterScript
  \/ LeaveScript
  \/ CompileInstrumented
  \/ EnginePause
  \/ DropAllLocks
  \/ LoopTest
  \/ Sleep
  \/ RestoreLocks
  \/ resume
  \/ attachDebugger
  \/ \E destroyed \in BOOLEAN : detachDebugger(destroyed)
  \/ detachDebuggerTest
  \/ recompileLock
  \/ recompileAllJSFunctions

DebuggerSpec == Init /\ [][DebuggerNext]_vars

\* Each thread is scheduled: a step of runEventLoopWhilePaused that can run
\* does run, a thread blocked on the JSLock gets it when it is free often
\* enough, and the driver leaves its critical section.
DebuggerFairSpec ==
  /\ DebuggerSpec
  /\ WF_vars(DropAllLocks)
  /\ WF_vars(LoopTest)
  /\ WF_vars(Sleep)
  /\ SF_vars(RestoreLocks)
  /\ WF_vars(recompileAllJSFunctions)

\* ------------------------------------------------ collection: properties
Members(nodes) == {nodes[i] : i \in 1..Len(nodes)}

\* The sequence without the occurrences of n.
Without(nodes, n) == SelectSeq(nodes, LAMBDA x : x # n)

\* What a script reads from item(i) in the current state.
ItemNow(i) == itemResults(m_nodes, 1, <<JSValueMakeNumber(i)>>)

\* The number passed as first argument of the last call.
IndexArg == JSValueToNumber(call.arguments[1])

AddCall(n) ==
  /\ call.fn = "add"
  /\ call.arguments \in {<<ObjectOf(n)>>, <<ObjectOf(n), JSNull>>}

AddBeforeCall(n, m) ==
  /\ call.fn = "add"
  /\ call.arguments = <<ObjectOf(n), ObjectOf(m)>>

\* C1: after add(n, before=m) with m a member at index k, item(k) is n and
\* item(k+1) is m, m is still a member and the members other than n keep
\* their relative order.
C1_AddBeforeInsertsAtK ==
  \A n \in NodeInstances, m \in NodeInstances :
    (AddBeforeCall(n, m) /\ m \in Members(old_nodes)) =>
      LET k == Find(old_nodes, m)
      IN  /\ ~crashed
          /\ ItemNow(k) = {ObjectOf(n)}
          /\ ItemNow(k + 1) = {ObjectOf(m)}
          /\ m \in Members(m_nodes)
          /\ Without(m_nodes, n) = Without(old_nodes, n)

\* C2: add(node, before) with a before that is no current member ends in an
\* error and changes nothing in the sequence.
C2_AddUnknownBeforeIsError ==
  \A n \in NodeInstances, m \in NodeInstances :
    (AddBeforeCall(n, m) /\ m \notin Members(old_nodes)) =>
      /\ ~crashed
      /\ exception # "none"
      /\ m_nodes = old_nodes

\* C3: remove(index) with index >= length (a negative argument included)
\* reports an error and leaves the sequence and its length unchanged.
C3_RemoveOutOfRangeIsError ==
  (call.fn = "remove" /\ call.argumentCount >= 1
     /\ (IndexArg < 0 \/ IndexArg >= Len(old_nodes))) =>
    /\ ~crashed
    /\ exception # "none"
    /\ m_nodes = old_nodes
    /\ getLength(m_nodes) = getLength(old_nodes)

\* C4: item(index) returns the node at index exactly when 0 <= index < length
\* and notFound for every other index, a negative one included; it never
\* throws.
C4_ItemBoundsChecked ==
  (call.fn = "item" /\ call.argumentCount >= 1) =>
    /\ ~crashed
    /\ exception = "none"
    /\ ret = IF 0 <= IndexArg /\ IndexArg < Len(m_nodes)
             THEN ObjectOf(m_nodes[IndexArg + 1]) ELSE nullRef

\* C5: after remove(k) with 0 <= k < length, item(k) is the node that was at
\* k+1 (notFound if none), the elements before k are unchanged and length is
\* one less.
C5_RemoveShiftsDown ==
  (call.fn = "remove" /\ call.argumentCount >= 1
     /\ 0 <= IndexArg /\ IndexArg < Len(old_nodes)) =>
    LET k == IndexArg
    IN  /\ ~crashed
        /\ exception = "none"
        /\ ItemNow(k) = {IF k + 1 < Len(old_nodes) THEN ObjectOf(old_nodes[k + 2]) ELSE nullRef}
        /\ \A i \in 0..(k - 1) : ItemNow(i) = {ObjectOf(old_nodes[i + 1])}
        /\ getLength(m_nodes).num = getLength(old_nodes).num - 1

\* A remove(k) of an element that has both a predecessor and a successor.
C5_Witness ==
  /\ call.fn = "remove" /\ call.argumentCount >= 1
  /\ 0 < IndexArg /\ IndexArg + 1 < Len(old_nodes)
  /\ ~crashed
  /\ Len(m_nodes) = Len(old_nodes) - 1

\* C6: add(n) with no before, or a null before, appends n: item(length-1)
\* is n and every element already present keeps its index.
C6_AddAppends ==
  \A n \in NodeInstances :
    AddCall(n) =>
      /\ ~crashed
      /\ exception = "none"
      /\ getLength(m_nodes).num = getLength(old_nodes).num + 1
      /\ ItemNow(getLength(m_nodes).num - 1) = {ObjectOf(n)}
      /\ \A i \in 0..(Len(old_nodes) - 1) : ItemNow(i) = {ObjectOf(old_nodes[i + 1])}

\* An add with an explicit null before on a collection that has elements.
C6_Witness ==
  /\ call.fn = "add" /\ call.argumentCount = 2 /\ call.arguments[2] = JSNull
  /\ JSValueIsObject(call.arguments[1])
  /\ Len(old_nodes) >= 2
  /\ m_nodes = Append(old_nodes, JSObjectGetPrivate(call.arguments[1]))

\* -------------------------------------------- debugger bridge: properties
\* C7: when the execution thread is paused and the driver has called
\* resume() (the flag is set), the thread eventually leaves the pause loop
\* and runs script again, holding the lock.
C7_ResumeLeadsToRunning ==
  (InPauseLoop /\ m_doneProcessingDebuggerEvents)
    ~> (execPc = "script" /\ lockOwner = "exec")

\* The thread sleeps in the loop of an attached bridge and resume() has set
\* the flag.
C7_Witness ==
  /\ BridgeState = "Paused"
  /\ execPc = "sleep"
  /\ m_doneProcessingDebuggerEvents

\* C8: inside the pause loop the execution thread does not hold the JSLock, a
\* driver that waits for the lock then finds it free, and the execution
\* thread holds the lock whenever it runs script.
C8_LockHandOff ==
  /\ InPauseLoop => lockOwner # "exec"
  /\ (InPauseLoop /\ drvPc = "lock") => lockOwner = "none"
  /\ execPc = "script" => lockOwner = "exec"

\* The driver holds the lock inside recompileAllJSFunctions while the
\* execution thread is in the pause loop.
C8_Witness ==
  /\ InPauseLoop
  /\ drvPc = "recompile"
  /\ lockOwner = "driver"

\* C9: a paused execution thread leaves the pause loop only when the resume
\* flag is set; until then it stays blocked.
C9_BlockedUntilResumed ==
  [][(Blocked /\ ~Blocked') => m_doneProcessingDebuggerEvents]_vars

\* The loop has tested the flag, found it clear and gone to sleep.
C9_Witness ==
  /\ execPc = "sleep"
  /\ ~m_doneProcessingDebuggerEvents
  /\ lockOwner = "none"

\* C10: when detachDebugger has returned the bridge is detached; with
\* isBeingDestroyed false every instrumented function has been recompiled,
\* so no instrumentation is left for the next attach; with isBeingDestroyed
\* true no recompilation ran.
C10_DetachSettles ==
  (BridgeState = "Detached") =>
    /\ ~attached
    /\ (~isBeingDestroyed => instrumented = {})
    /\ (isBeingDestroyed => (~recompiled /\ stripped = {}))

\* A detach of a paused session with isBeingDestroyed false that stripped
\* instrumentation.
C10_Witness ==
  /\ BridgeState = "Detached"
  /\ ~isBeingDestroyed
  /\ recompiled
  /\ stripped # {}
  /\ instrumented = {}
  /\ InPauseLoop

\* C11: attachDebugger called while the bridge is already attached is
\* rejected and leaves the bridge as it was.
C11_SecondAttachRejected ==
  (lastAttach.called /\ lastAttach.wasAttached) => lastAttach.rejected

C13_UseAfterReleaseRejected ==
  (released /\ call.fn \in {"item", "add", "remove"}) =>
    /\ ~crashed
    /\ m_nodes = old_nodes
    /\ ret = nullRef

\* The releases of the window so far, of either kind.
ReleaseCalls == releases.native + releases.collector

\* C14: the release of the window runs exactly once, at the first request of
\* native teardown or of the collector, and a request that finds the window
\* released changes nothing of the window.
C14_ReleaseRunsOnce ==
  [][/\ releases'.ran = (IF ReleaseCalls' >= 1 THEN 1 ELSE 0)
     /\ (ReleaseCalls' >= 1) => window'.released
     /\ window.released => window' = window]_vars

\* Both native teardown and the collector have asked for the release.
C14_Witness ==
  /\ releases.native >= 1
  /\ releases.collector >= 1
  /\ window.released
  /\ releases.ran = 1

\* C15: once the context is torn down, no host object materialized in it is
\* left undestroyed, a global property referencing it or not, and the
\* destructor has been seen to run if there was one to destroy.
C15_DestroyedOnTeardown ==
  ~contextAlive =>
    /\ \A o \in HostObjects : objState[o] \in {"none", "freed"}
    /\ \A o \in globalsAtTeardown : objState[o] = "freed" /\ isSampleFree

\* The bridge is deleted while a static and an exotic host object were
\* global properties; the collector freed neither before.
C15_Witness ==
  /\ ~contextAlive
  /\ globalsAtTeardown = HostObjects
  /\ \A o \in HostObjects : objState[o] = "freed"
  /\ isSampleFree

\* C16: a property read of the collection is answered by the static table
\* when the name is in it, and by the fallback only when it is not.
C16_StaticFirst ==
  call.fn = "getProperty" =>
    LET name == call.arguments[1]
    IN  /\ name \in AllCollectionPropertyMap => answeredBy = "static"
        /\ name \notin AllCollectionPropertyMap => answeredBy = "fallback"
        /\ name = "length" => ret = getLength(m_nodes)

\* length is read from a collection of two or more nodes.
C16_Witness ==
  /\ call.fn = "getProperty"
  /\ call.arguments[1] = "length"
  /\ answeredBy = "static"
  /\ Len(m_nodes) >= 2

\* C17: a dispatch invokes the handler property first, if one is set, and
\* then the listeners, once per registration and in the order they were
\* added, whenever the handler was assigned.
C17_DispatchOrder ==
  evtOp = "dispatchEvent" =>
    LET h == IF handler # NoCallback THEN 1 ELSE 0
    IN  /\ Len(invoked) = h + Len(listeners)
        /\ h = 1 => invoked[1] = handler
        /\ \A i \in 1..Len(listeners) : invoked[h + i] = listeners[i]

\* A dispatch to three listeners and a handler assigned after two of them.
C17_Witness ==
  /\ evtOp = "dispatchEvent"
  /\ Len(listeners) = 3
  /\ handler # NoCallback
  /\ handlerSetAt = 2
  /\ Len(invoked) = 4

\* C18: a read of the handler property returns the callable assigned last,
\* whatever else was done to the target since, and nothing when the value
\* assigned last was not callable.
C18_HandlerRoundTrip ==
  evtOp = "getHandlerProperty" =>
    readBack = (IF IsCallable(lastAssigned) THEN lastAssigned ELSE NoCallback)

\* The handler is read back after it was assigned and a listener was added
\* since.
C18_Witness ==
  /\ evtOp = "getHandlerProperty"
  /\ IsCallable(lastAssigned)
  /\ readBack = lastAssigned
  /\ Len(listeners) > handlerSetAt

\* C19: item, add or remove called with no argument is rejected with an
\* exception and leaves the nodes as they were.
C19_ArityErrorOnMissingArguments ==
  (call.fn \in {"item", "add", "remove"} /\ call.argumentCount < 1) =>
    /\ exception # "none"
    /\ m_nodes = old_nodes
    /\ ~crashed

\* C20: an add that ends without an exception makes the collection one
\* longer and keeps every member; an in-range remove makes it one shorter;
\* item and reads of a property leave the nodes alone.
C20_LengthTracksAddsAndRemoves ==
  /\ (call.fn = "add" /\ exception = "none" /\ ~crashed) =>
       /\ Len(m_nodes) = Len(old_nodes) + 1
       /\ Members(old_nodes) \subseteq Members(m_nodes)
  /\ (call.fn = "remove" /\ call.argumentCount >= 1 /\ ~crashed
        /\ 0 <= IndexArg /\ IndexArg < Len(old_nodes)) =>
       Len(m_nodes) = Len(old_nodes) - 1
  /\ call.fn \in {"item", "getProperty"} => m_nodes = old_nodes

====
